---- MODULE Spec2Model ----
(***************************************************************************)
(* Battle engine of the PokeMCP server.                                    *)
(*                                                                         *)
(* The repository holds the engine twice: the "advanced" server            *)
(* (src/unnamed/part_000 with the types of part_001: battle log, status,   *)
(* weather, items, a guarded start_battle) and the "minimal" server        *)
(* (src/src/index.ts with the types of part_002).  The variable `variant`  *)
(* says which of the two is running; it never changes.                     *)
(*                                                                         *)
(* JavaScript numbers: every number the engine handles is a non-negative   *)
(* integer, NaN or Infinity.  NaN and Infinity are encoded as two integers *)
(* outside that range and every comparison and arithmetic step on a value  *)
(* that can be one of them goes through an operator that gives the         *)
(* JavaScript result.                                                      *)
(***************************************************************************)
EXTENDS Integers, Sequences, FiniteSets, TLC

VARIABLES
    variant,        \* "advanced" (part_000) or "minimal" (src/index.ts)
    currentBattle,  \* <<>> for null, <<state>> for a BattleState
    pending,        \* the number of start_battle handlers awaiting the catalog
    response        \* what the last completed tool call gave its caller

vars == <<variant, currentBattle, pending, response>>

---------------------------------------------------------------------------
\* Bounds of the model.

\* A make_move is not issued once the turn counter has reached MaxTurn.
MaxTurn == 4
\* At most this many start_battle calls await the catalog at a time.
MaxInFlight == 1
\* A driven battle is given up once its turn counter has reached DrivenTurns.
DrivenTurns == 8
\* The number of turns within which a driven battle is claimed to end.
TurnLimit == 6
\* The turns a typed Encounter is followed for: the counter of a status is
\* at most 2.
TypedTurns == 2

\* Values of Math.random(), in hundredths.
RandomDraws == {0, 99}
\* The ids a caller passes to start_battle; 0 is no creature of the catalog.
PokemonIds == {0, 1, 2}
\* make_move's schema admits 0..3.
MoveIndexes == 0..3
\* use_item's schema admits any index >= 0.
ItemIndexes == 0..1

---------------------------------------------------------------------------
\* JavaScript numbers.

NaN == -1
Infinity == -2

\* Math.max(0, hp - damage); hp is finite or NaN.
MaxZeroMinus(hp, damage) ==
    IF hp = NaN \/ damage = NaN THEN NaN
    ELSE IF damage = Infinity THEN 0
    ELSE IF hp - damage > 0 THEN hp - damage ELSE 0

\* Math.min(max, hp + heal); heal is finite.
MinPlus(max, hp, heal) ==
    IF hp = NaN THEN NaN
    ELSE IF hp + heal < max THEN hp + heal ELSE max

\* x <= 0 and x > 0: both are false of NaN.
LeZero(x) == x # NaN /\ x # Infinity /\ x <= 0
GtZero(x) == x # NaN /\ (x = Infinity \/ x > 0)

\* a || d on numbers: d when a is absent, null or 0 (0 stands for all three).
OrDefault(a, d) == IF a = 0 THEN d ELSE a

---------------------------------------------------------------------------
\* The catalog: what GET /pokemon/{id} answers when it answers.

DefaultLevel == 50

Catalog(id) ==
    IF id = 1 THEN
        [id |-> 1, name |-> "bulbasaur", types |-> <<"grass", "poison">>,
         stats |-> <<3, 2, 2, 3, 3, 2>>,
         moves |-> << [name |-> "growl",     power |-> 0,  accuracy |-> 0,  type |-> "normal", pp |-> 0, class |-> "status"],
                      [name |-> "vine-whip", power |-> 45, accuracy |-> 50, type |-> "grass",  pp |-> 25, class |-> "physical"],
                      [name |-> "water-gun", power |-> 0,  accuracy |-> 0,  type |-> "water",  pp |-> 0, class |-> "special"],
                      [name |-> "tackle",    power |-> 0,  accuracy |-> 0,  type |-> "normal", pp |-> 35, class |-> "physical"],
                      [name |-> "cut",       power |-> 50, accuracy |-> 95, type |-> "normal", pp |-> 30, class |-> "physical"] >>]
    ELSE
        [id |-> 2, name |-> "charmander", types |-> <<"fire">>,
         stats |-> <<4, 3, 2, 3, 2, 3>>,
         moves |-> << [name |-> "scratch", power |-> 0,  accuracy |-> 0,  type |-> "normal", pp |-> 0, class |-> "physical"],
                      [name |-> "ember",   power |-> 40, accuracy |-> 50, type |-> "fire",   pp |-> 25, class |-> "special"] >>]

\* The category the catalog gives a move (damage_class: physical, special or
\* status); the reader of the move list does not copy it.
DamageClass(name) ==
    LET all == Catalog(1).moves \o Catalog(2).moves
    IN  all[CHOOSE i \in 1..Len(all) : all[i].name = name].class

\* What one await fetchFromPokeAPI gives: the payload ("ok"), null, or, for
\* the move list, a payload whose entries lack the field the reader
\* dereferences (move.move.type), at which it raises a TypeError.
\* The outcomes of the reads createBattlePokemon makes for one combatant:
\* when the first read gives null the other two are not made ("unread").
\* An id the catalog does not know is answered 404, which is a null read.
InCatalog(id) == id \in {1, 2}

Reads(id) ==
    [pokemon : {"null"}, moves : {"unread"}, stats : {"unread"}]
    \cup IF InCatalog(id)
         THEN [pokemon : {"ok"}, moves : {"ok", "null", "malformed"}, stats : {"ok", "null"}]
         ELSE {}

---------------------------------------------------------------------------
\* Hydration.  A reader's result is [threw, value]: threw when it raised a
\* TypeError dereferencing a payload that lacks the field.

toBattleMove(move) ==
    [name     |-> move.name,
     power    |-> OrDefault(move.power, 0),
     accuracy |-> OrDefault(move.accuracy, 100),
     type     |-> move.type,
     pp       |-> OrDefault(move.pp, 20)]

\* moves.slice(0, 4)
Slice4(s) == SubSeq(s, 1, IF Len(s) < 4 THEN Len(s) ELSE 4)

getPokemonMoves(pokemonId, outcome) ==
    IF outcome = "null" THEN [threw |-> FALSE, value |-> <<>>]
    ELSE IF outcome = "malformed" THEN [threw |-> TRUE, value |-> <<>>]
    ELSE [threw |-> FALSE,
          value |-> [i \in 1..Len(Slice4(Catalog(pokemonId).moves)) |->
                        toBattleMove(Slice4(Catalog(pokemonId).moves)[i])]]

ZeroStats ==
    [hp |-> 0, attack |-> 0, defense |-> 0,
     specialAttack |-> 0, specialDefense |-> 0, speed |-> 0]

getPokemonStats(pokemonId, outcome) ==
    IF outcome = "null" THEN [threw |-> FALSE, value |-> ZeroStats]
    ELSE LET st == Catalog(pokemonId).stats IN
         [threw |-> FALSE,
          value |-> [hp |-> st[1], attack |-> st[2], defense |-> st[3],
                     specialAttack |-> st[4], specialDefense |-> st[5],
                     speed |-> st[6]]]

NoStatus == [type |-> "none", turnsLeft |-> 0]

\* BattlePokemon that hands every combatant a potion.
BattlePokemon_WithPotion(v, pokemon, level, stats, moves) ==
    IF v = "advanced" THEN
        [id |-> pokemon.id, name |-> pokemon.name, level |-> level,
         types |-> pokemon.types, stats |-> stats, moves |-> moves,
         currentHp |-> stats.hp,
         status |-> NoStatus,
         statModifiers |-> [attack |-> 0, defense |-> 0, specialAttack |-> 0,
                            specialDefense |-> 0, speed |-> 0],
         experience |-> 0,
         items |-> <<[name |-> "potion", heal |-> 5]>>]
    ELSE
        [id |-> pokemon.id, name |-> pokemon.name, level |-> level,
         types |-> pokemon.types, stats |-> stats, moves |-> moves,
         currentHp |-> stats.hp]

\* The record createBattlePokemon returns, per variant.
BattlePokemon(v, pokemon, level, stats, moves) ==
    IF v = "advanced" THEN
        [id |-> pokemon.id, name |-> pokemon.name, level |-> level,
         types |-> pokemon.types, stats |-> stats, moves |-> moves,
         currentHp |-> stats.hp,
         status |-> NoStatus,
         statModifiers |-> [attack |-> 0, defense |-> 0, specialAttack |-> 0,
                            specialDefense |-> 0, speed |-> 0],
         experience |-> 0,
         items |-> <<>>]
    ELSE
        [id |-> pokemon.id, name |-> pokemon.name, level |-> level,
         types |-> pokemon.types, stats |-> stats, moves |-> moves,
         currentHp |-> stats.hp]

\* Result: [tag, error, value]; tag "ok" with value <<pokemon>>, "null"
\* (advanced only) or "threw" (minimal only) with the error's message.
createBattlePokemon(v, pokemonId, level, reads) ==
    LET moves == getPokemonMoves(pokemonId, reads.moves)
        stats == getPokemonStats(pokemonId, reads.stats)
        fail  == IF v = "advanced" THEN [tag |-> "null", error |-> "", value |-> <<>>]
                 ELSE [tag |-> "threw", error |-> "TypeError", value |-> <<>>]
    IN  IF reads.pokemon = "null" THEN
            IF v = "advanced" THEN [tag |-> "null", error |-> "", value |-> <<>>]
            ELSE [tag |-> "threw", error |-> "Pokemon not found", value |-> <<>>]
        ELSE IF moves.threw \/ stats.threw THEN fail
        ELSE [tag |-> "ok", error |-> "",
              value |-> <<BattlePokemon(v, Catalog(pokemonId), level,
                                        stats.value, moves.value)>>]

NoWeather == [type |-> "none", turnsLeft |-> 0]

\* NewBattleState with the turn counter of the minimal server.
NewBattleState_TurnZero(v, playerPokemon, opponentPokemon) ==
    [playerPokemon |-> playerPokemon, opponentPokemon |-> opponentPokemon,
     turn |-> 0, weather |-> NoWeather, status |-> "active",
     battleLog |-> <<>>]

\* The state startBattle returns once both combatants are hydrated.
NewBattleState(v, playerPokemon, opponentPokemon) ==
    IF v = "advanced" THEN
        [playerPokemon |-> playerPokemon, opponentPokemon |-> opponentPokemon,
         turn |-> 1, weather |-> NoWeather, status |-> "active",
         battleLog |-> <<>>]
    ELSE
        [playerPokemon |-> playerPokemon, opponentPokemon |-> opponentPokemon,
         turn |-> 0, weather |-> "normal", status |-> "active"]

\* Result: [tag, error, value]; tag "ok" with value <<state>> or "threw".
startBattle(v, playerPokemonId, opponentPokemonId, playerReads, opponentReads) ==
    LET playerPokemon   == createBattlePokemon(v, playerPokemonId, DefaultLevel, playerReads)
        opponentPokemon == createBattlePokemon(v, opponentPokemonId, DefaultLevel, opponentReads)
    IN  IF playerPokemon.tag = "threw" THEN
            [tag |-> "threw", error |-> playerPokemon.error, value |-> <<>>]
        ELSE IF opponentPokemon.tag = "threw" THEN
            [tag |-> "threw", error |-> opponentPokemon.error, value |-> <<>>]
        ELSE IF playerPokemon.tag = "null" \/ opponentPokemon.tag = "null" THEN
            [tag |-> "threw", error |-> "Failed to create battle Pokemon", value |-> <<>>]
        ELSE [tag |-> "ok", error |-> "",
              value |-> <<NewBattleState(v, playerPokemon.value[1],
                                         opponentPokemon.value[1])>>]

---------------------------------------------------------------------------
\* Damage.

\* typeChart[attackerType]?.[defenderType] in halves (1 is 0.5, 4 is 2);
\* 0 when the chart has no entry.
typeChart(attackerType, defenderType) ==
    CASE attackerType = "fire"  /\ defenderType = "water"  -> 1
      [] attackerType = "fire"  /\ defenderType = "grass"  -> 4
      [] attackerType = "fire"  /\ defenderType = "ice"    -> 4
      [] attackerType = "water" /\ defenderType = "fire"   -> 4
      [] attackerType = "water" /\ defenderType = "grass"  -> 1
      [] attackerType = "water" /\ defenderType = "ground" -> 4
      [] attackerType = "grass" /\ defenderType = "fire"   -> 1
      [] attackerType = "grass" /\ defenderType = "water"  -> 4
      [] attackerType = "grass" /\ defenderType = "bug"    -> 1
      [] OTHER -> 0

\* The effectiveness as a fraction <<numerator, denominator>>.
RECURSIVE calculateTypeEffectiveness(_, _)
calculateTypeEffectiveness(attackerType, defenderTypes) ==
    IF defenderTypes = <<>> THEN <<1, 1>>
    ELSE LET rest == calculateTypeEffectiveness(attackerType, Tail(defenderTypes))
             m    == typeChart(attackerType, Head(defenderTypes))
         IN  IF m # 0 THEN <<rest[1] * m, rest[2] * 2>> ELSE rest

\* Math.random() * 100 <= move.accuracy, random in hundredths.
isMoveHit(move, random) == random <= move.accuracy

\* Math.floor(((2 * level / 5 + 2) * power * attack / defense) / 50 + 2):
\* a division by 0 gives NaN for 0 / 0 and Infinity otherwise.
BaseDamage(level, power, attack, defense) ==
    IF defense = 0
    THEN IF (2 * level + 10) * power * attack = 0 THEN NaN ELSE Infinity
    ELSE ((2 * level + 10) * power * attack) \div (5 * defense * 50) + 2

\* The stat pair of calculateDamage: the test is on the move's type, the
\* only field of a BattleMove that could tell.
attackStat(attacker, move) ==
    IF move.type = "physical" THEN attacker.stats.attack
    ELSE attacker.stats.specialAttack

defenseStat(defender, move) ==
    IF move.type = "physical" THEN defender.stats.defense
    ELSE defender.stats.specialDefense

\* random is Math.random() in hundredths: the factor 0.85 + random * 0.15
\* is (8500 + 15 * random) / 10000.
calculateDamage(v, attacker, defender, move, random) ==
    LET attack  == attackStat(attacker, move)
        defense == defenseStat(defender, move)
        base    == BaseDamage(attacker.level, move.power, attack, defense)
        eff     == calculateTypeEffectiveness(move.type, defender.types)
        burn    == IF attacker.status.type = "burn" /\ move.type = "physical"
                   THEN 1 ELSE 2
    IN  IF base = NaN \/ base = Infinity THEN base
        ELSE IF v = "advanced"
        THEN (base * eff[1] * burn * (8500 + 15 * random)) \div (eff[2] * 2 * 10000)
        ELSE (base * (8500 + 15 * random)) \div 10000

---------------------------------------------------------------------------
\* The battle log holds one record per pushed line.

LogLine(who, ev, arg, n) == [who |-> who, ev |-> ev, arg |-> arg, n |-> n]

\* battleLog.push(...): the minimal server keeps no log.
Push(v, state, lines) ==
    IF v = "advanced" THEN [state EXCEPT !.battleLog = @ \o lines] ELSE state

applyWeatherEffects(battleState) ==
    IF battleState.weather.type = "sunny"
    THEN Push("advanced", battleState, <<LogLine("", "sunny", "", 0)>>)
    ELSE IF battleState.weather.type = "rainy"
    THEN Push("advanced", battleState, <<LogLine("", "rainy", "", 0)>>)
    ELSE battleState

\* StatusUpkeep that counts down and never resets the status.
StatusUpkeep_NoReset(pokemon) ==
    IF pokemon.status.type = "none" THEN <<pokemon, <<>>>>
    ELSE
      LET hurt ==
            IF pokemon.status.type = "burn"
            THEN <<MaxZeroMinus(pokemon.currentHp, pokemon.stats.hp \div 10),
                   <<LogLine(pokemon.name, "burn damage", "", 0)>>>>
            ELSE IF pokemon.status.type = "poison"
            THEN <<MaxZeroMinus(pokemon.currentHp, (pokemon.stats.hp * 8) \div 100),
                   <<LogLine(pokemon.name, "poison damage", "", 0)>>>>
            ELSE <<pokemon.currentHp, <<>>>>
          left == pokemon.status.turnsLeft - 1
      IN  <<[pokemon EXCEPT !.currentHp = hurt[1], !.status.turnsLeft = left],
            hurt[2]>>

\* One combatant's half of applyStatusEffects: <<pokemon, pushed lines>>.
StatusUpkeep(pokemon) ==
    IF pokemon.status.type = "none" THEN <<pokemon, <<>>>>
    ELSE
      LET hurt ==
            IF pokemon.status.type = "burn"
            THEN <<MaxZeroMinus(pokemon.currentHp, pokemon.stats.hp \div 10),
                   <<LogLine(pokemon.name, "burn damage", "", 0)>>>>
            ELSE IF pokemon.status.type = "poison"
            THEN <<MaxZeroMinus(pokemon.currentHp, (pokemon.stats.hp * 8) \div 100),
                   <<LogLine(pokemon.name, "poison damage", "", 0)>>>>
            ELSE <<pokemon.currentHp, <<>>>>
          left == pokemon.status.turnsLeft - 1
      IN  IF left <= 0
          THEN <<[pokemon EXCEPT !.currentHp = hurt[1], !.status = NoStatus],
                 hurt[2] \o <<LogLine(pokemon.name, "status normal", "", 0)>>>>
          ELSE <<[pokemon EXCEPT !.currentHp = hurt[1], !.status.turnsLeft = left],
                 hurt[2]>>

\* applyStatusEffects that handles the opponent before the player.
applyStatusEffects_OpponentFirst(battleState) ==
    LET p == StatusUpkeep(battleState.playerPokemon)
        o == StatusUpkeep(battleState.opponentPokemon)
    IN  Push("advanced",
             [battleState EXCEPT !.playerPokemon = p[1], !.opponentPokemon = o[1]],
             o[2] \o p[2])

applyStatusEffects(battleState) ==
    LET p == StatusUpkeep(battleState.playerPokemon)
        o == StatusUpkeep(battleState.opponentPokemon)
    IN  Push("advanced",
             [battleState EXCEPT !.playerPokemon = p[1], !.opponentPokemon = o[1]],
             p[2] \o o[2])

---------------------------------------------------------------------------
\* One turn.  The operators of an attack take the values of the
\* Math.random() calls they make; the operators named ...Outcomes collect
\* the results over every value of the draws.

\* moves[index] is undefined when index is no index of moves.
Defined(moves, index) == index >= 0 /\ index < Len(moves)

\* Math.floor(Math.random() * moves.length), random in hundredths.
PickIndex(moves, random) == (random * Len(moves)) \div 100

\* The player's attack on the opponent.
PlayerAttack(v, state, playerMove, hitRandom, damageRandom) ==
    IF isMoveHit(playerMove, hitRandom) THEN
        LET damage == calculateDamage(v, state.playerPokemon, state.opponentPokemon,
                                      playerMove, damageRandom)
        IN  Push(v, [state EXCEPT !.opponentPokemon.currentHp = MaxZeroMinus(@, damage)],
                 <<LogLine(state.playerPokemon.name, "used", playerMove.name, 0),
                   LogLine(state.opponentPokemon.name, "took", "", damage)>>)
    ELSE Push(v, state, <<LogLine(state.playerPokemon.name, "missed", "", 0)>>)

\* The opponent's attack on the player; the opponent is alive.
OpponentAttack(v, state, opponentMove, hitRandom, damageRandom) ==
    IF isMoveHit(opponentMove, hitRandom) THEN
        LET damage == calculateDamage(v, state.opponentPokemon, state.playerPokemon,
                                      opponentMove, damageRandom)
        IN  Push(v, [state EXCEPT !.playerPokemon.currentHp = MaxZeroMinus(@, damage)],
                 <<LogLine(state.opponentPokemon.name, "used", opponentMove.name, 0),
                   LogLine(state.playerPokemon.name, "took", "", damage)>>)
    ELSE Push(v, state, <<LogLine(state.opponentPokemon.name, "missed", "", 0)>>)

\* TurnStart that does not clear the log.
TurnStart_KeepsLog(v, state) ==
    IF v = "advanced"
    THEN applyStatusEffects(applyWeatherEffects(state))
    ELSE state

\* The turn up to the first attack: the log cleared, weather and status
\* applied (the minimal server has none of the three).
TurnStart(v, state) ==
    IF v = "advanced"
    THEN applyStatusEffects(applyWeatherEffects([state EXCEPT !.battleLog = <<>>]))
    ELSE state

\* OpponentTurnOutcomes without the test that the opponent is still alive.
OpponentTurnOutcomes_AlwaysAttacks(v, afterP) ==
    LET oppMoves == afterP.opponentPokemon.moves IN
    IF oppMoves = <<>>
    THEN {[threw |-> TRUE, state |-> afterP]}
    ELSE {[threw |-> FALSE,
           state |-> [OpponentAttack(v, afterP, oppMoves[PickIndex(oppMoves, pick) + 1],
                                     hitRandom, damageRandom)
                        EXCEPT !.turn = @ + 1]] :
            pick \in RandomDraws, hitRandom \in RandomDraws,
            damageRandom \in RandomDraws}

\* The turn from the opponent's attack on: a set of [threw, state].
OpponentTurnOutcomes(v, afterP) ==
    LET oppMoves == afterP.opponentPokemon.moves IN
    IF GtZero(afterP.opponentPokemon.currentHp)
    THEN IF oppMoves = <<>>
         THEN {[threw |-> TRUE, state |-> afterP]}
         ELSE {[threw |-> FALSE,
                state |-> [OpponentAttack(v, afterP, oppMoves[PickIndex(oppMoves, pick) + 1],
                                          hitRandom, damageRandom)
                             EXCEPT !.turn = @ + 1]] :
                 pick \in RandomDraws, hitRandom \in RandomDraws,
                 damageRandom \in RandomDraws}
    ELSE {[threw |-> FALSE, state |-> [afterP EXCEPT !.turn = @ + 1]]}

\* The results of executeBattleTurn: a set of [threw, state].  The turn works
\* on the object the slot holds, so when isMoveHit raises a TypeError on an
\* undefined move, state is what the slot holds from then on.
executeBattleTurn(v, state, playerMoveIndex) ==
    UNION { IF ~Defined(start.playerPokemon.moves, playerMoveIndex)
            THEN {[threw |-> TRUE, state |-> start]}
            ELSE UNION { OpponentTurnOutcomes(v, afterP) :
                           afterP \in { PlayerAttack(v, start,
                                           start.playerPokemon.moves[playerMoveIndex + 1],
                                           hitRandom, damageRandom) :
                                        hitRandom \in RandomDraws,
                                        damageRandom \in RandomDraws } } :
            start \in {TurnStart(v, state)} }

---------------------------------------------------------------------------
\* Responses.  kind is "text" for a returned envelope and "raised" for an
\* error that leaves the handler; msg names the text or the error.

Response(tool, kind, msg) ==
    [tool |-> tool, kind |-> kind, msg |-> msg, turn |-> 0,
     opponentMove |-> "",
     playerHp |-> 0, opponentHp |-> 0, winner |-> ""]

NoResponse == Response("", "", "")

---------------------------------------------------------------------------
\* The tools.

Init ==
    /\ variant \in {"advanced", "minimal"}
    /\ currentBattle = <<>>
    /\ pending = 0
    /\ response = NoResponse

\* The condition of make_move's end check on one combatant: currentHp <= 0.
Fainted(pokemon) == LeZero(pokemon.currentHp)

\* NoBattleOutcome without the null check: the handler dereferences null.
NoBattleOutcome_Unguarded(tool, slot) ==
    <<slot, Response(tool, "raised", "TypeError")>>

\* What make_move and use_item do when the slot is null: <<slot, response>>.
NoBattleOutcome(tool, slot) ==
    <<slot, Response(tool, "text", "No active battle")>>

\* start_battle, up to its first await: the handler waits for the catalog
\* and other tool calls are served meanwhile.  The handler reads and writes
\* nothing but its own parameters until the catalog has answered, so the
\* model draws the parameters when it resumes, in StartBattleReturn.
StartBattleCall ==
    /\ pending < MaxInFlight
    /\ pending' = pending + 1
    /\ UNCHANGED <<variant, currentBattle, response>>

\* StartBattleOutcome with a handler that empties the slot when it fails.
StartBattleOutcome_ClearsOnFailure(v, slot, result) ==
    IF result.tag = "ok" THEN
        <<result.value,
          [Response("start_battle", "text", "Battle started") EXCEPT
             !.turn = result.value[1].turn,
             !.playerHp = result.value[1].playerPokemon.currentHp,
             !.opponentHp = result.value[1].opponentPokemon.currentHp]>>
    ELSE IF v = "advanced" THEN
        <<(<<>>), Response("start_battle", "text", "Failed to start battle")>>
    ELSE
        <<(<<>>), Response("start_battle", "raised", result.error)>>

\* What start_battle does with startBattle's result: <<slot, response>>.
\* The advanced handler catches the error; the minimal one lets it out.
StartBattleOutcome(v, slot, result) ==
    IF result.tag = "ok" THEN
        <<result.value,
          [Response("start_battle", "text", "Battle started") EXCEPT
             !.turn = result.value[1].turn,
             !.playerHp = result.value[1].playerPokemon.currentHp,
             !.opponentHp = result.value[1].opponentPokemon.currentHp]>>
    ELSE IF v = "advanced" THEN
        <<slot, Response("start_battle", "text", "Failed to start battle")>>
    ELSE
        <<slot, Response("start_battle", "raised", result.error)>>

\* What startBattle can give, per server: its results over every pair of
\* ids and every outcome of the reads.
StartBattleResults ==
    [v \in {"advanced", "minimal"} |->
       UNION { { startBattle(v, playerPokemonId, opponentPokemonId,
                             playerReads, opponentReads) :
                 playerReads \in Reads(playerPokemonId),
                 opponentReads \in Reads(opponentPokemonId) } :
               playerPokemonId \in PokemonIds, opponentPokemonId \in PokemonIds }]

\* start_battle, from the catalog's answers to its return.
StartBattleReturn ==
    /\ pending > 0
    /\ \E result \in StartBattleResults[variant] :
         \E outcome \in {StartBattleOutcome(variant, currentBattle, result)} :
           /\ currentBattle' = outcome[1]
           /\ response' = outcome[2]
    /\ pending' = pending - 1
    /\ UNCHANGED variant

\* MakeMoveReport that announces the winner and keeps the battle in the slot.
MakeMoveReport_KeepsEnded(state, moveIndex, random) ==
    LET oppMoves == state.opponentPokemon.moves
        oppIndex == PickIndex(oppMoves, random)
        ended    == Fainted(state.playerPokemon) \/ Fainted(state.opponentPokemon)
        winner   == IF Fainted(state.playerPokemon) THEN state.opponentPokemon.name
                    ELSE state.playerPokemon.name
        text     == [Response("make_move", "text", "Turn") EXCEPT
                       !.turn = state.turn,
                       !.opponentMove = oppMoves[oppIndex + 1].name,
                       !.playerHp = state.playerPokemon.currentHp,
                       !.opponentHp = state.opponentPokemon.currentHp]
    IN  IF ~Defined(oppMoves, oppIndex)
        THEN <<(<<state>>), Response("make_move", "raised", "TypeError")>>
        ELSE IF ended
        THEN <<(<<state>>), [text EXCEPT !.winner = winner]>>
        ELSE <<(<<state>>), text>>

\* make_move on a held battle, after executeBattleTurn returned state:
\* <<slot, response>>.  random is the Math.random() of the handler's own
\* draw of an opponent move for the text.
MakeMoveReport(state, moveIndex, random) ==
    LET oppMoves == state.opponentPokemon.moves
        oppIndex == PickIndex(oppMoves, random)
        ended    == Fainted(state.playerPokemon) \/ Fainted(state.opponentPokemon)
        winner   == IF Fainted(state.playerPokemon) THEN state.opponentPokemon.name
                    ELSE state.playerPokemon.name
        text     == [Response("make_move", "text", "Turn") EXCEPT
                       !.turn = state.turn,
                       !.opponentMove = oppMoves[oppIndex + 1].name,
                       !.playerHp = state.playerPokemon.currentHp,
                       !.opponentHp = state.opponentPokemon.currentHp]
    IN  IF ~Defined(oppMoves, oppIndex)
        THEN <<(<<state>>), Response("make_move", "raised", "TypeError")>>
        ELSE IF ended
        THEN <<(<<>>), [text EXCEPT !.winner = winner]>>
        ELSE <<(<<state>>), text>>

\* What make_move does on a held battle: the set of <<slot, response>>.
MakeMoveOutcomes(v, state, moveIndex) ==
    UNION { IF result.threw
            THEN {<<(<<result.state>>), Response("make_move", "raised", "TypeError")>>}
            ELSE {MakeMoveReport(result.state, moveIndex, random) : random \in RandomDraws} :
            result \in executeBattleTurn(v, state, moveIndex) }

\* The make_move handler called with moveIndex.
MakeMoveCall(moveIndex) ==
    IF currentBattle = <<>> THEN
        /\ currentBattle' = NoBattleOutcome("make_move", currentBattle)[1]
        /\ response' = NoBattleOutcome("make_move", currentBattle)[2]
        /\ UNCHANGED <<variant, pending>>
    ELSE
        /\ \E outcome \in MakeMoveOutcomes(variant, currentBattle[1], moveIndex) :
             /\ currentBattle' = outcome[1]
             /\ response' = outcome[2]
        /\ UNCHANGED <<variant, pending>>

MakeMove ==
    \E moveIndex \in MoveIndexes :
      /\ currentBattle # <<>> => currentBattle[1].turn < MaxTurn
      /\ MakeMoveCall(moveIndex)

\* UseItemOutcome without the check of the item: reading the effect of an
\* undefined item raises a TypeError.
UseItemOutcome_Unchecked(state, itemIndex) ==
    LET items == state.playerPokemon.items IN
    IF ~Defined(items, itemIndex)
    THEN <<(<<state>>), Response("use_item", "raised", "TypeError")>>
    ELSE
      LET item   == items[itemIndex + 1]
          healed == IF item.heal # 0
                    THEN Push("advanced",
                              [state EXCEPT !.playerPokemon.currentHp =
                                 MinPlus(state.playerPokemon.stats.hp, @, item.heal)],
                              <<LogLine(state.playerPokemon.name, "recovered", "", item.heal)>>)
                    ELSE state
          spliced == [healed EXCEPT !.playerPokemon.items =
                        SubSeq(items, 1, itemIndex) \o SubSeq(items, itemIndex + 2, Len(items))]
      IN  <<(<<spliced>>),
            [Response("use_item", "text", "Log") EXCEPT
               !.playerHp = spliced.playerPokemon.currentHp,
               !.opponentHp = spliced.opponentPokemon.currentHp]>>

\* UseItemOutcome with a heal that is not capped at the maximum.
UseItemOutcome_Uncapped(state, itemIndex) ==
    LET items == state.playerPokemon.items IN
    IF ~Defined(items, itemIndex)
    THEN <<(<<state>>), Response("use_item", "text", "Invalid item index")>>
    ELSE
      LET item   == items[itemIndex + 1]
          healed == IF item.heal # 0
                    THEN Push("advanced",
                              [state EXCEPT !.playerPokemon.currentHp = @ + item.heal],
                              <<LogLine(state.playerPokemon.name, "recovered", "", item.heal)>>)
                    ELSE state
          spliced == [healed EXCEPT !.playerPokemon.items =
                        SubSeq(items, 1, itemIndex) \o SubSeq(items, itemIndex + 2, Len(items))]
      IN  <<(<<spliced>>),
            [Response("use_item", "text", "Log") EXCEPT
               !.playerHp = spliced.playerPokemon.currentHp,
               !.opponentHp = spliced.opponentPokemon.currentHp]>>

\* use_item on a held battle: <<slot, response>>.
UseItemOutcome(state, itemIndex) ==
    LET items == state.playerPokemon.items IN
    IF ~Defined(items, itemIndex)
    THEN <<(<<state>>), Response("use_item", "text", "Invalid item index")>>
    ELSE
      LET item   == items[itemIndex + 1]
          healed == IF item.heal # 0
                    THEN Push("advanced",
                              [state EXCEPT !.playerPokemon.currentHp =
                                 MinPlus(state.playerPokemon.stats.hp, @, item.heal)],
                              <<LogLine(state.playerPokemon.name, "recovered", "", item.heal)>>)
                    ELSE state
          spliced == [healed EXCEPT !.playerPokemon.items =
                        SubSeq(items, 1, itemIndex) \o SubSeq(items, itemIndex + 2, Len(items))]
      IN  <<(<<spliced>>),
            [Response("use_item", "text", "Log") EXCEPT
               !.playerHp = spliced.playerPokemon.currentHp,
               !.opponentHp = spliced.opponentPokemon.currentHp]>>

\* use_item: a tool of the advanced server only.
UseItem ==
    /\ variant = "advanced"
    /\ \E itemIndex \in ItemIndexes :
         \E outcome \in { IF currentBattle = <<>>
                          THEN NoBattleOutcome("use_item", currentBattle)
                          ELSE UseItemOutcome(currentBattle[1], itemIndex) } :
             /\ currentBattle' = outcome[1]
             /\ response' = outcome[2]
    /\ UNCHANGED <<variant, pending>>

Next == StartBattleCall \/ StartBattleReturn \/ MakeMove \/ UseItem

Spec == Init /\ [][Next]_vars

\* The advanced server alone.
InitAdvanced == Init /\ variant = "advanced"

SpecAdvanced == InitAdvanced /\ [][Next]_vars

---------------------------------------------------------------------------
\* The engine on every Encounter its types admit.  start_battle installs
\* combatants without status and without items and no weather, and no tool
\* sets any of the three; the code that handles them (status upkeep, weather,
\* the heal and the splice of use_item) is exercised on Encounters drawn from
\* the declared types: fully hydrated combatants carrying a status with a
\* positive counter or none with counter 0, an inventory, damaged or not.

\* PokemonStatus: none with counter 0, or a condition with a counter >= 1.
Statuses ==
    {NoStatus}
    \cup [type : {"burn", "poison"}, turnsLeft : {1, 2}]
    \cup [type : {"paralyze", "sleep"}, turnsLeft : {1}]

\* BattleItem, as far as use_item reads it: name and effect.heal, 0 when the
\* effect has no heal.
Potion  == [name |-> "potion", heal |-> 5]
XAttack == [name |-> "x-attack", heal |-> 0]
Inventories == {<<>>, <<Potion>>, <<XAttack, Potion>>}

\* BattleWeather.
Weathers == {NoWeather, [type |-> "sunny", turnsLeft |-> 2],
             [type |-> "rainy", turnsLeft |-> 2]}

\* The currentHp of a typed combatant; its BattleStats.hp is 20.
TypedHp == {1, 18}

\* A hydrated combatant of the advanced server with the given fields.
TypedPokemon(pokemonId, maxHp, currentHp, status, items) ==
    [BattlePokemon("advanced", Catalog(pokemonId), DefaultLevel,
                   [getPokemonStats(pokemonId, "ok").value EXCEPT !.hp = maxHp],
                   getPokemonMoves(pokemonId, "ok").value)
       EXCEPT !.currentHp = currentHp, !.status = status, !.items = items]

\* Who carries which status in the typed Encounters.
OpponentStatuses ==
    {NoStatus, [type |-> "burn", turnsLeft |-> 2], [type |-> "poison", turnsLeft |-> 1]}

\* A BattleState of bulbasaur (the player) against charmander, with
\* TypedTurns turns to go before the turn counter reaches MaxTurn.
TypedEncounter(playerStatus, playerHp, items, opponentStatus, opponentHp, weather) ==
    [NewBattleState("advanced",
                    TypedPokemon(1, 20, playerHp, playerStatus, items),
                    TypedPokemon(2, 20, opponentHp, opponentStatus, <<>>))
       EXCEPT !.weather = weather, !.turn = MaxTurn - TypedTurns]

\* Every pair of statuses without items; every inventory on a player without
\* status or burned; weather on an Encounter without status or item.
TypedEncounters ==
    { TypedEncounter(playerStatus, playerHp, <<>>, opponentStatus, opponentHp, NoWeather) :
        playerStatus \in Statuses, playerHp \in TypedHp,
        opponentStatus \in OpponentStatuses, opponentHp \in TypedHp }
    \cup
    { TypedEncounter(playerStatus, playerHp, items, NoStatus, 18, NoWeather) :
        playerStatus \in {NoStatus, [type |-> "burn", turnsLeft |-> 2]},
        playerHp \in TypedHp, items \in Inventories }
    \cup
    { TypedEncounter(NoStatus, 18, <<>>, NoStatus, 18, weather) : weather \in Weathers }

InitTyped ==
    /\ variant = "advanced"
    /\ currentBattle \in { <<state>> : state \in TypedEncounters }
    /\ pending = 0
    /\ response = NoResponse

\* The tools that act on the Encounter they find: start_battle reads nothing
\* of it.
NextTyped == MakeMove \/ UseItem

SpecTyped == InitTyped /\ [][NextTyped]_vars

---------------------------------------------------------------------------
\* A driven battle: a caller starts a battle, starts again when that failed,
\* and once an Encounter is held calls make_move(0) until a winner is named.
\* It makes one call at a time and gives up after DrivenTurns turns.

DriverStarts ==
    /\ currentBattle = <<>>
    /\ response.winner = ""
    /\ pending = 0
    /\ StartBattleCall

DriverMoves ==
    /\ currentBattle # <<>>
    /\ pending = 0
    /\ currentBattle[1].turn < DrivenTurns
    /\ MakeMoveCall(0)

NextDriven == DriverStarts \/ StartBattleReturn \/ DriverMoves

\* Every call the driver makes is answered, and the driver makes its next
\* move.
SpecDriven ==
    /\ Init
    /\ [][NextDriven]_vars
    /\ WF_vars(StartBattleReturn)
    /\ WF_vars(DriverMoves)

---------------------------------------------------------------------------
\* Which tool a step belongs to.  Only StartBattleReturn lowers pending;
\* every other step that is not StartBattleCall sets response.

IsStartBattleReturn == pending' = pending - 1
IsStartBattleSuccess == IsStartBattleReturn /\ response'.msg = "Battle started"
IsMakeMove == pending' = pending /\ response'.tool = "make_move"
IsUseItem == pending' = pending /\ response'.tool = "use_item"

Held == currentBattle # <<>>
Combatants == IF Held THEN {currentBattle[1].playerPokemon, currentBattle[1].opponentPokemon}
              ELSE {}

---------------------------------------------------------------------------
\* C1: in every reachable state each combatant of the held Encounter has
\* 0 <= currentHp <= baseStats.hp (as numbers: NaN satisfies neither bound).
C1_HpInRange ==
    \A c \in Combatants :
        /\ c.currentHp # NaN
        /\ 0 <= c.currentHp
        /\ c.currentHp <= c.stats.hp

\* C2: the turn counter is 1 when start_battle installs the Encounter, a
\* make_move that resolves a turn adds exactly 1 to it, and no other step
\* (use_item, a failed start_battle, a make_move that raises before the
\* turn is resolved) changes it.
C2_TurnCounter ==
    [][ /\ IsStartBattleSuccess => currentBattle'[1].turn = 1
        /\ (Held /\ currentBattle' # <<>> /\ ~IsStartBattleSuccess) =>
             IF IsMakeMove /\ response'.kind = "text"
             THEN currentBattle'[1].turn = currentBattle[1].turn + 1
             ELSE IF IsMakeMove
             THEN currentBattle'[1].turn \in {currentBattle[1].turn, currentBattle[1].turn + 1}
             ELSE currentBattle'[1].turn = currentBattle[1].turn
        /\ (IsMakeMove /\ Held /\ response'.kind = "text") =>
             response'.turn = currentBattle[1].turn + 1 ]_vars

\* C3: with no Encounter held, make_move and use_item answer "No active
\* battle" as text and leave the slot empty and everything else as it was.
C3_NoActiveBattle ==
    [][ (~Held /\ (IsMakeMove \/ IsUseItem)) =>
          /\ currentBattle' = <<>>
          /\ response'.kind = "text"
          /\ response'.msg = "No active battle"
          /\ response'.winner = ""
          /\ UNCHANGED <<variant, pending>> ]_vars

\* A make_move was answered "No active battle" and the slot is empty.
C3_Witness ==
    /\ ~Held
    /\ response.tool = "make_move"
    /\ response.msg = "No active battle"

---------------------------------------------------------------------------
\* The messages by which start_battle tells that hydration failed: the text
\* of the advanced handler; in the minimal server the Error of
\* createBattlePokemon, or the TypeError of the player's move list when that
\* is raised before the opponent is read.
HydrationFailures == {"Failed to start battle", "Pokemon not found", "TypeError"}

\* What startBattle gives when the creature read of either combatant is
\* null.
UnavailableResults ==
    [v \in {"advanced", "minimal"} |->
       UNION { { startBattle(v, playerPokemonId, opponentPokemonId,
                             playerReads, opponentReads) :
                 <<playerReads, opponentReads>> \in
                   { rr \in Reads(playerPokemonId) \X Reads(opponentPokemonId) :
                       rr[1].pokemon = "null" \/ rr[2].pokemon = "null" } } :
               playerPokemonId \in PokemonIds, opponentPokemonId \in PokemonIds }]

FreshStates ==
    { result.value : result \in StartBattleResults["advanced"] } \ {<<>>}

\* C5 (advanced server): a start_battle that succeeds while an Encounter is
\* held leaves in the slot an Encounter that startBattle returned: turn 1,
\* both combatants at full hit points, an empty log, no status, no item.
C5_Replaces ==
    [][ (Held /\ IsStartBattleSuccess) =>
          /\ currentBattle' \in FreshStates
          /\ currentBattle'[1].turn = 1
          /\ currentBattle'[1].battleLog = <<>>
          /\ currentBattle'[1].status = "active"
          /\ currentBattle'[1].weather = NoWeather
          /\ \A c \in {currentBattle'[1].playerPokemon, currentBattle'[1].opponentPokemon} :
               /\ c.currentHp = c.stats.hp
               /\ c.status = NoStatus
               /\ c.items = <<>> ]_vars

\* A start_battle is in flight while the slot holds an Encounter with a
\* resolved turn, a log and a damaged player.
C5_Witness ==
    /\ pending > 0
    /\ Held
    /\ currentBattle[1].turn > 1
    /\ currentBattle[1].battleLog # <<>>
    /\ currentBattle[1].playerPokemon.currentHp < currentBattle[1].playerPokemon.stats.hp

\* C6 (advanced server): the slot goes from empty to held only by a
\* start_battle that succeeds, and from held to empty only by a make_move
\* that names a winner; a make_move that names a winner empties the slot; a
\* held Encounter is "active"; and while the slot is empty the last answer
\* of make_move or use_item is the one that ended the Encounter or "No
\* active battle".
C6_Lifecycle ==
    /\ [][ /\ (~Held /\ currentBattle' # <<>>) =>
                (IsStartBattleSuccess /\ currentBattle'[1].turn = 1)
           /\ (Held /\ currentBattle' = <<>>) =>
                (IsMakeMove /\ response'.winner # "")
           /\ (IsMakeMove /\ Held /\ response'.winner # "") => currentBattle' = <<>>
           /\ (~Held /\ (IsMakeMove \/ IsUseItem)) => response'.winner = "" ]_vars
    /\ [](Held => currentBattle[1].status = "active")
    /\ []((~Held /\ response.tool \in {"make_move", "use_item"}) =>
            (response.winner # "" \/ response.msg = "No active battle"))

\* A make_move has ended the Encounter: it named a winner and the slot is
\* empty.
C6_Witness ==
    /\ ~Held
    /\ response.tool = "make_move"
    /\ response.winner # ""

---------------------------------------------------------------------------
\* C7: a make_move on a held Encounter never leaves a combatant at 0 hit
\* points in the slot, and when it ends the Encounter it names as winner a
\* combatant whose currentHp is > 0 while the other's is 0.
C7_WinnerSurvived ==
    [][ (IsMakeMove /\ Held) =>
          /\ currentBattle' # <<>> =>
               /\ currentBattle'[1].playerPokemon.currentHp # 0
               /\ currentBattle'[1].opponentPokemon.currentHp # 0
          /\ currentBattle' = <<>> =>
               \/ /\ response'.winner = currentBattle[1].playerPokemon.name
                  /\ GtZero(response'.playerHp)
                  /\ response'.opponentHp = 0
               \/ /\ response'.winner = currentBattle[1].opponentPokemon.name
                  /\ GtZero(response'.opponentHp)
                  /\ response'.playerHp = 0 ]_vars

\* C8: no held Encounter has both combatants at 0 hit points.
C8_NotBothZero ==
    Held => ~(/\ currentBattle[1].playerPokemon.currentHp = 0
              /\ currentBattle[1].opponentPokemon.currentHp = 0)

\* C9 (advanced server): in every reachable state, a make_move whose index
\* is no index of the player's move list is answered with an explicit
\* invalid-move-index text and leaves the Encounter as it was.
C9_InvalidMoveIndex ==
    Held =>
      \A moveIndex \in MoveIndexes :
        ~Defined(currentBattle[1].playerPokemon.moves, moveIndex) =>
          \A outcome \in MakeMoveOutcomes(variant, currentBattle[1], moveIndex) :
            /\ outcome[1] = currentBattle
            /\ outcome[2].kind = "text"
            /\ outcome[2].msg = "Invalid move index"

\* C9, the part on state alone: such a make_move leaves the Encounter as it
\* was, whatever it answers.
C9_NoMutation ==
    Held =>
      \A moveIndex \in MoveIndexes :
        ~Defined(currentBattle[1].playerPokemon.moves, moveIndex) =>
          \A outcome \in MakeMoveOutcomes(variant, currentBattle[1], moveIndex) :
            outcome[1] = currentBattle

\* C10: no tool call ends with an error raised out of its handler.
C10_NeverRaises == response.kind # "raised"

---------------------------------------------------------------------------
\* C11 (advanced server, typed Encounters): in every reachable state, a
\* use_item whose index selects no item of the player's inventory answers
\* "Invalid item index" as text and gives back the Encounter it found:
\* inventory, hit points, turn counter and log as they were.
C11_InvalidItemIndex ==
    Held =>
      \A itemIndex \in ItemIndexes :
        ~Defined(currentBattle[1].playerPokemon.items, itemIndex) =>
          \A outcome \in {UseItemOutcome(currentBattle[1], itemIndex)} :
            /\ outcome[1] = currentBattle
            /\ outcome[2].tool = "use_item"
            /\ outcome[2].kind = "text"
            /\ outcome[2].msg = "Invalid item index"

\* A use_item was answered "Invalid item index" on a player who holds an
\* item.
C11_Witness ==
    /\ Held
    /\ response.tool = "use_item"
    /\ response.msg = "Invalid item index"
    /\ currentBattle[1].playerPokemon.items # <<>>

\* items without its entry at index (from 0).
WithoutItem(items, index) ==
    [j \in 1..(Len(items) - 1) |-> IF j <= index THEN items[j] ELSE items[j + 1]]

\* C12 (advanced server, typed Encounters): in every reachable state, a
\* use_item whose index selects an item leaves the inventory without that
\* one item, with or without a heal; an item with heal h > 0 sets the
\* player's currentHp to min(stats.hp, currentHp + h), any other leaves it;
\* the opponent, the turn counter, the weather and the player's other fields
\* are as they were.
C12_UsesItem ==
    Held =>
      \A itemIndex \in ItemIndexes :
        Defined(currentBattle[1].playerPokemon.items, itemIndex) =>
          LET before  == currentBattle[1]
              item    == before.playerPokemon.items[itemIndex + 1]
              outcome == UseItemOutcome(before, itemIndex)
              after   == outcome[1][1]
              sum     == before.playerPokemon.currentHp + item.heal
          IN  /\ Len(outcome[1]) = 1
              /\ outcome[2].kind = "text"
              /\ after.playerPokemon.items = WithoutItem(before.playerPokemon.items, itemIndex)
              /\ Len(after.playerPokemon.items) = Len(before.playerPokemon.items) - 1
              /\ after.playerPokemon.currentHp =
                    IF item.heal = 0 THEN before.playerPokemon.currentHp
                    ELSE IF sum < before.playerPokemon.stats.hp THEN sum
                    ELSE before.playerPokemon.stats.hp
              /\ after.opponentPokemon = before.opponentPokemon
              /\ after.turn = before.turn
              /\ after.weather = before.weather
              /\ [after.playerPokemon EXCEPT !.items = <<>>, !.currentHp = 0]
                   = [before.playerPokemon EXCEPT !.items = <<>>, !.currentHp = 0]

\* A use_item has used an item: the heal was capped at the maximum, the
\* item is gone and another one is still held.
C12_Witness ==
    /\ Held
    /\ response.tool = "use_item"
    /\ response.msg = "Log"
    /\ currentBattle[1].playerPokemon.currentHp = currentBattle[1].playerPokemon.stats.hp
    /\ \E i \in 1..Len(currentBattle[1].battleLog) :
          currentBattle[1].battleLog[i].ev = "recovered"
    /\ currentBattle[1].playerPokemon.items = <<XAttack>>

---------------------------------------------------------------------------
\* C13: a battle that a successful start_battle installed and that is driven
\* by make_move(0) ends within a bounded number of turns: no Encounter is
\* still held when its turn counter has reached TurnLimit.  (The bound of the
\* claim, 100 turns for the hit points of the real catalog, is TurnLimit for
\* the hit points of this one: a make_move(0) between hydrated combatants
\* takes at least one of at most 4 hit points.)
C13_Terminates ==
    currentBattle # <<>> => currentBattle[1].turn < TurnLimit

---------------------------------------------------------------------------
\* The status of a combatant is well formed: a counter >= 0 that is 0 exactly
\* when the status is none.
StatusWellFormed(pokemon) ==
    /\ pokemon.status.turnsLeft >= 0
    /\ pokemon.status.type = "none" <=> pokemon.status.turnsLeft = 0

\* C14 (advanced server, typed Encounters): every combatant of a held
\* Encounter has a counter >= 0 that is 0 exactly when its status is none;
\* upkeep applied to a held combatant gives a well-formed status whose
\* counter is not above the one it found (so a counter brought to 0 comes
\* with the status none); and no step of a tool raises a combatant's counter.
C14_StatusCounter ==
    /\ [](\A c \in Combatants :
            /\ StatusWellFormed(c)
            /\ StatusWellFormed(StatusUpkeep(c)[1])
            /\ StatusUpkeep(c)[1].status.turnsLeft <= c.status.turnsLeft)
    /\ [][ (Held /\ currentBattle' # <<>>) =>
             /\ currentBattle'[1].playerPokemon.status.turnsLeft
                  <= currentBattle[1].playerPokemon.status.turnsLeft
             /\ currentBattle'[1].opponentPokemon.status.turnsLeft
                  <= currentBattle[1].opponentPokemon.status.turnsLeft ]_vars

\* A turn's upkeep has brought the player's counter to 0 and reset the
\* status, while the opponent's status goes on with a lower counter.
C14_Witness ==
    /\ Held
    /\ response.tool = "make_move"
    /\ currentBattle[1].playerPokemon.status = NoStatus
    /\ \E i \in 1..Len(currentBattle[1].battleLog) :
          /\ currentBattle[1].battleLog[i].ev = "status normal"
          /\ currentBattle[1].battleLog[i].who = currentBattle[1].playerPokemon.name
    /\ currentBattle[1].opponentPokemon.status = [type |-> "burn", turnsLeft |-> 1]

---------------------------------------------------------------------------
\* The damage of section 4.3 of the specification for a draw r = 0.85 +
\* random * 0.0015: floor(base * effectiveness * burnFactor * r) with base =
\* floor(((2 * level / 5 + 2) * power * attackStat / defenseStat) / 50 + 2),
\* the stat pair and burnFactor decided by the move's category.
ClaimedDamage(attacker, defender, move, random) ==
    LET physical == DamageClass(move.name) = "physical"
        attack   == IF physical THEN attacker.stats.attack ELSE attacker.stats.specialAttack
        defense  == IF physical THEN defender.stats.defense ELSE defender.stats.specialDefense
        base     == ((2 * attacker.level + 10) * move.power * attack) \div (250 * defense) + 2
        eff      == calculateTypeEffectiveness(move.type, defender.types)
        halves   == IF attacker.status.type = "burn" /\ physical THEN 1 ELSE 2
    IN  (base * eff[1] * halves * (8500 + 15 * random)) \div (eff[2] * 2 * 10000)

\* The two ways a held Encounter can be attacked: <<attacker, defender>>.
Attacks ==
    IF Held
    THEN {<<currentBattle[1].playerPokemon, currentBattle[1].opponentPokemon>>,
          <<currentBattle[1].opponentPokemon, currentBattle[1].playerPokemon>>}
    ELSE {}

\* C15 (advanced server): for every attack a held Encounter admits, every
\* move of the attacker and every draw, calculateDamage is a number >= 0
\* and is the damage of section 4.3.
C15_DamageFormula ==
    \A attack \in Attacks :
      \A i \in 1..Len(attack[1].moves) :
        \A random \in RandomDraws :
          LET damage == calculateDamage("advanced", attack[1], attack[2],
                                        attack[1].moves[i], random)
          IN  /\ damage # NaN
              /\ damage = Infinity \/ damage >= 0
              /\ attack[2].stats.defense # 0 /\ attack[2].stats.specialDefense # 0 =>
                    damage = ClaimedDamage(attack[1], attack[2], attack[1].moves[i], random)

\* C18 (advanced server): for every attack a held Encounter admits and every
\* move the attacker holds, calculateDamage takes attack against defense
\* when the catalog classes the move physical and specialAttack against
\* specialDefense when it classes it special.
C18_StatPair ==
    \A attack \in Attacks :
      \A i \in 1..Len(attack[1].moves) :
        LET move == attack[1].moves[i] IN
          /\ DamageClass(move.name) = "physical" =>
                /\ attackStat(attack[1], move) = attack[1].stats.attack
                /\ defenseStat(attack[2], move) = attack[2].stats.defense
          /\ DamageClass(move.name) = "special" =>
                /\ attackStat(attack[1], move) = attack[1].stats.specialAttack
                /\ defenseStat(attack[2], move) = attack[2].stats.specialDefense

---------------------------------------------------------------------------
\* C16: tool calls do not interleave: while a start_battle awaits the
\* catalog the only step taken is the return of that start_battle; no
\* make_move, use_item or further start_battle is served in between.
C16_NoInterleaving ==
    [][ pending > 0 => IsStartBattleReturn ]_vars

---------------------------------------------------------------------------
\* The places in log of the lines of an attack ("used" or "missed") by who.
AttackLines(log, who) ==
    { i \in 1..Len(log) : log[i].who = who /\ log[i].ev \in {"used", "missed"} }

\* C17: in a make_move that resolves a turn, when the opponent's currentHp
\* is not > 0 after the player's attack the opponent's attack is not
\* resolved: the player's currentHp is what it was when the attack phase
\* began (after upkeep) and, in the advanced server, the log holds no attack
\* of the opponent; and the log has every attack of the player before every
\* attack of the opponent (combatants of different names).
C17_AttackOrder ==
    [][ (IsMakeMove /\ Held /\ response'.kind = "text") =>
          LET before == TurnStart(variant, currentBattle[1])
              after  == IF currentBattle' = <<>> THEN before ELSE currentBattle'[1]
              player == before.playerPokemon.name
              opp    == before.opponentPokemon.name
          IN  /\ ~GtZero(response'.opponentHp) =>
                    response'.playerHp = before.playerPokemon.currentHp
              /\ (variant = "advanced" /\ currentBattle' # <<>> /\ player # opp) =>
                    /\ \A i \in AttackLines(after.battleLog, player) :
                         \A j \in AttackLines(after.battleLog, opp) : i < j
                    /\ AttackLines(after.battleLog, player) # {}
                    /\ ~GtZero(response'.opponentHp) =>
                          AttackLines(after.battleLog, opp) = {} ]_vars

\* A make_move has brought the opponent to 0: the Encounter is over, the
\* player is the winner and still has hit points.
C17_Witness ==
    /\ currentBattle = <<>>
    /\ response.tool = "make_move"
    /\ response.opponentHp = 0
    /\ response.playerHp > 0
    /\ response.winner # ""
    /\ response.turn > 2

---------------------------------------------------------------------------
\* The lines upkeep pushes, and those of an attack.
UpkeepEvents == {"sunny", "rainy", "burn damage", "poison damage", "status normal"}
AttackEvents == {"used", "took", "missed"}

\* log is an initial part of longer.
IsPrefix(log, longer) ==
    /\ Len(log) <= Len(longer)
    /\ SubSeq(longer, 1, Len(log)) = log

\* C19 (advanced server, typed Encounters): the log is per turn and append
\* only.  The turn a make_move begins on a held Encounter does not depend on
\* the log it finds; the log a make_move leaves holds the lines of one turn:
\* lines of upkeep followed by at most two attacks, and no line of use_item;
\* and a use_item on a held Encounter leaves the log it found with at most
\* its own line after it.
C19_LogPerTurn ==
    /\ [](Held =>
            TurnStart(variant, currentBattle[1])
              = TurnStart(variant, [currentBattle[1] EXCEPT !.battleLog = <<>>]))
    /\ [][ /\ (IsMakeMove /\ Held /\ currentBattle' # <<>>) =>
                LET log == currentBattle'[1].battleLog IN
                  /\ \A i \in 1..Len(log) : log[i].ev \in UpkeepEvents \cup AttackEvents
                  /\ Cardinality({i \in 1..Len(log) : log[i].ev \in {"used", "missed"}}) <= 2
                  /\ \A i, j \in 1..Len(log) :
                        (log[i].ev \in AttackEvents /\ log[j].ev \in UpkeepEvents) => j < i
           /\ (IsUseItem /\ Held) =>
                /\ currentBattle' # <<>>
                /\ IsPrefix(currentBattle[1].battleLog, currentBattle'[1].battleLog)
                /\ Len(currentBattle'[1].battleLog) <= Len(currentBattle[1].battleLog) + 1
                /\ \A i \in (Len(currentBattle[1].battleLog) + 1)
                                ..Len(currentBattle'[1].battleLog) :
                      currentBattle'[1].battleLog[i].ev = "recovered" ]_vars

\* A use_item has put its line after the lines of a resolved turn that
\* followed an earlier turn.
C19_Witness ==
    /\ Held
    /\ response.tool = "use_item"
    /\ currentBattle[1].turn = MaxTurn
    /\ Len(currentBattle[1].battleLog) > 1
    /\ currentBattle[1].battleLog[Len(currentBattle[1].battleLog)].ev = "recovered"
    /\ currentBattle[1].battleLog[1].ev # "recovered"

---------------------------------------------------------------------------
\* floor(percent % of n), for n >= 0.
FloorPercent(percent, n) ==
    CHOOSE k \in 0..n : 100 * k <= percent * n /\ percent * n < 100 * (k + 1)

\* The hit points upkeep takes from a combatant.
UpkeepLoss(pokemon) ==
    CASE pokemon.status.type = "burn"   -> FloorPercent(10, pokemon.stats.hp)
      [] pokemon.status.type = "poison" -> FloorPercent(8, pokemon.stats.hp)
      [] OTHER -> 0

\* The hit points of a combatant after upkeep, floored at 0.
AfterUpkeep(pokemon) ==
    IF pokemon.currentHp - UpkeepLoss(pokemon) > 0
    THEN pokemon.currentHp - UpkeepLoss(pokemon) ELSE 0

\* The places in log of the upkeep lines of who.
StatusLines(log, who) ==
    { i \in 1..Len(log) :
        log[i].who = who /\ log[i].ev \in {"burn damage", "poison damage", "status normal"} }

\* C20 (advanced server, typed Encounters): upkeep takes floor(10% of
\* stats.hp) from a burned combatant and floor(8%) from a poisoned one, down
\* to 0 at most, and nothing from any other; it lowers the counter of every
\* status but none by 1.  A make_move applies it before the attacks: the
\* statuses it leaves are those after upkeep, no combatant ends the turn
\* above its hit points after upkeep, and the log has the player's upkeep
\* lines before the opponent's and both before the first attack.
C20_Upkeep ==
    /\ [](\A c \in Combatants :
            LET after == StatusUpkeep(c)[1] IN
              /\ after.currentHp = AfterUpkeep(c)
              /\ c.status.type \in {"none", "paralyze", "sleep"} =>
                    after.currentHp = c.currentHp
              /\ c.status.type # "none" =>
                    after.status.turnsLeft = c.status.turnsLeft - 1
              /\ c.status.type = "none" => after = c)
    /\ [][ (IsMakeMove /\ Held) =>
             LET before == currentBattle[1] IN
               /\ response'.kind = "text" =>
                     /\ response'.playerHp <= AfterUpkeep(before.playerPokemon)
                     /\ response'.opponentHp <= AfterUpkeep(before.opponentPokemon)
               /\ currentBattle' # <<>> =>
                     LET after == currentBattle'[1]
                         log   == after.battleLog
                     IN  /\ after.playerPokemon.status
                               = StatusUpkeep(before.playerPokemon)[1].status
                         /\ after.opponentPokemon.status
                               = StatusUpkeep(before.opponentPokemon)[1].status
                         /\ \A i \in StatusLines(log, before.playerPokemon.name) :
                               \A j \in StatusLines(log, before.opponentPokemon.name) : i < j
                         /\ \A i \in 1..Len(log) : \A j \in 1..Len(log) :
                               (log[i].ev \in UpkeepEvents /\ log[j].ev \in AttackEvents)
                                 => i < j ]_vars

\* A turn has been resolved in which the burned player and the poisoned
\* opponent both took upkeep damage, the player first, and both go on.
C20_Witness ==
    /\ Held
    /\ response.tool = "make_move"
    /\ response.kind = "text"
    /\ \E i, j \in 1..Len(currentBattle[1].battleLog) :
          /\ i < j
          /\ currentBattle[1].battleLog[i].ev = "burn damage"
          /\ currentBattle[1].battleLog[i].who = currentBattle[1].playerPokemon.name
          /\ currentBattle[1].battleLog[j].ev = "poison damage"
          /\ currentBattle[1].battleLog[j].who = currentBattle[1].opponentPokemon.name
    /\ currentBattle[1].playerPokemon.status = [type |-> "burn", turnsLeft |-> 1]

---------------------------------------------------------------------------
\* C21: the answer of a make_move that resolved a turn describes that turn:
\* when the opponent was not above 0 after the player's attack, so that its
\* attack was not resolved, the answer names no move of the opponent; and
\* (advanced server, combatants of different names) when the log of the turn
\* says the opponent used a move, that is the move the answer names.
C21_ResponseDescribesTurn ==
    [][ (IsMakeMove /\ Held /\ response'.kind = "text") =>
          /\ ~GtZero(response'.opponentHp) => response'.opponentMove = ""
          /\ (variant = "advanced" /\ currentBattle' # <<>>
                /\ currentBattle[1].playerPokemon.name # currentBattle[1].opponentPokemon.name) =>
                \A i \in 1..Len(currentBattle'[1].battleLog) :
                  LET line == currentBattle'[1].battleLog[i] IN
                    (line.who = currentBattle[1].opponentPokemon.name /\ line.ev = "used")
                      => response'.opponentMove = line.arg ]_vars

---------------------------------------------------------------------------
\* C22: after a make_move on a held Encounter that returns its text, the
\* slot is held exactly when both combatants of that Encounter have
\* currentHp > 0 after the turn, and the Encounter it leaves in the slot is
\* the one the answer reports.
C22_SlotIffBothAlive ==
    [][ (IsMakeMove /\ Held /\ response'.kind = "text") =>
          /\ currentBattle' # <<>> <=>
                (GtZero(response'.playerHp) /\ GtZero(response'.opponentHp))
          /\ currentBattle' # <<>> =>
                /\ currentBattle'[1].playerPokemon.currentHp = response'.playerHp
                /\ currentBattle'[1].opponentPokemon.currentHp = response'.opponentHp ]_vars

---------------------------------------------------------------------------
\* The reads for one combatant among which one failed.
SomeReadFailed(reads) ==
    \/ reads.pokemon = "null"
    \/ reads.moves \in {"null", "malformed"}
    \/ reads.stats = "null"

\* What startBattle gives when a read of either combatant failed.
FailedReadResults ==
    [v \in {"advanced", "minimal"} |->
       UNION { { startBattle(v, playerPokemonId, opponentPokemonId, rr[1], rr[2]) :
                 rr \in { rr \in Reads(playerPokemonId) \X Reads(opponentPokemonId) :
                            SomeReadFailed(rr[1]) \/ SomeReadFailed(rr[2]) } } :
               playerPokemonId \in PokemonIds, opponentPokemonId \in PokemonIds }]

\* The Encounters startBattle returns although a read failed.
InstalledAfterFailedRead ==
    [v \in {"advanced", "minimal"} |->
       { result.value : result \in { r \in FailedReadResults[v] : r.tag = "ok" } }]

\* C23: a start_battle in which a catalog read of either combatant failed
\* installs no Encounter; hence no combatant of a held Encounter carries the
\* all-zero fallback stats or an empty move list.
C23_FullyHydrated ==
    /\ [][ IsStartBattleSuccess =>
             currentBattle' \notin InstalledAfterFailedRead[variant] ]_vars
    /\ [](\A c \in Combatants :
            /\ c.stats # ZeroStats
            /\ c.moves # <<>>)

---------------------------------------------------------------------------
\* C24 (advanced server): in every state reachable by start_battle,
\* make_move and use_item, both combatants of a held Encounter have status
\* none with counter 0 and no item, and the weather is none; so the start of
\* a turn changes nothing but the log, which it empties, and use_item at any
\* index answers "Invalid item index" and leaves the Encounter as it is.
C24_NothingApplied ==
    Held =>
      /\ \A c \in Combatants : c.status = NoStatus /\ c.items = <<>>
      /\ currentBattle[1].weather = NoWeather
      /\ TurnStart(variant, currentBattle[1]) = [currentBattle[1] EXCEPT !.battleLog = <<>>]
      /\ \A itemIndex \in ItemIndexes :
            /\ UseItemOutcome(currentBattle[1], itemIndex)[1] = currentBattle
            /\ UseItemOutcome(currentBattle[1], itemIndex)[2].msg = "Invalid item index"

\* A use_item was answered "Invalid item index" on an Encounter that has
\* been through a turn and in which both combatants are damaged.
C24_Witness ==
    /\ Held
    /\ response.tool = "use_item"
    /\ response.msg = "Invalid item index"
    /\ currentBattle[1].turn > 1
    /\ \A c \in Combatants : c.currentHp # NaN /\ c.currentHp < c.stats.hp

====
